---- MODULE Spec2Model ----
(***************************************************************************)
(* GRE tracker backend: the gre_mistakes and exam_sessions tables, the     *)
(* vocabulary table, the HTTP handlers of app/main.py on them, and the     *)
(* SM-2 scheduler of utils/sm2.py.                                         *)
(*                                                                         *)
(* Numbers.  ease_factor is a Python float; the model holds it in          *)
(* hundredths (2.5 is 250).  Every value the scheduler produces from a     *)
(* hundredth is again a hundredth up to the rounding error of a double     *)
(* (below 1e-15), and int(interval * new_ease_factor) equals the integer   *)
(* division (interval * hundredths) \div 100 on every state reachable from *)
(* a created mistake and on every input with interval below 5; the input   *)
(* sets of SpecSM2 stay inside that range.  Times are whole days.          *)
(*                                                                         *)
(* Specifications.  Spec: the handlers of mistakes and of one exam         *)
(* session, one request after the other, with the clock.  SpecReview: the  *)
(* review cycle of the mistakes, with the clock held at day 0.  SpecRace:  *)
(* two submit-answer requests on one session, interleaved at the SELECT    *)
(* and at the commit.  SpecSM2: one call of calculate_next_review on       *)
(* arguments drawn from its contract.  SpecAll: the handlers of Spec and   *)
(* the reviews together, with the clock held at day 0.  SpecVocab: the     *)
(* handlers of the vocabulary.  SpecStats: one call of get_exam_statistics *)
(* on stored mistakes and sessions.  SpecPercent: the percentage of a      *)
(* section on counts drawn from 0..MaxTotal.  A handler of a session reads *)
(* and writes one row by its primary key, so Spec, SpecAll and SpecRace    *)
(* follow exam_sessions through one row.  SpecExamCreate: exam creation    *)
(* with the section and KMF filters, and the list query, on every table of *)
(* mistakes with KMF fields.  SpecDue: the reviews of the first mistake    *)
(* while the clock runs.  SpecKmf: create, update and delete of the first  *)
(* mistake with the KMF fields of the payload.  SpecFinish: a complete     *)
(* request and a submit-answer request on one session, interleaved at the  *)
(* SELECT and at the commit.  SpecVocabRace: two vocabulary requests with  *)
(* the same word up to case, interleaved at the query and at the commit.   *)
(* The handlers are async functions without an await, so requests          *)
(* interleave when the backend runs in several worker processes.           *)
(*                                                                         *)
(* Payload values.  A KMF field of a payload is null, a number or a string *)
(* of the characters "7" (a digit) and "a" (not a digit).                  *)
(*                                                                         *)
(* Words.  A vocabulary word is a sequence of characters, each named by a  *)
(* string: "a" and "A", the wildcard "%", and "U+00E9" and "U+00C9" for    *)
(* the two cases of a letter outside ASCII.                                *)
(***************************************************************************)
EXTENDS Integers, FiniteSets, Sequences, TLC

(* ------------------------------ bounds --------------------------------- *)
\* rows of gre_mistakes the model follows: ids 1..MaxMistakeId
MaxMistakeId == 1
\* the clock runs from day 0 to day MaxNow
MaxNow == 1
\* submit_exam_answer is cut off when a counter would leave -MaxCount..MaxCount
MaxCount == 2
\* inputs of the scheduler under SpecSM2
MaxIntervalInput == 3
MaxEaseInput == 300
MaxRepInput == 5
\* rows of vocabulary the model follows: ids 1..MaxVocabId
MaxVocabId == 2
\* a word is a sequence of 1..MaxWordLen characters
MaxWordLen == 2
\* rows of exam_sessions that get_exam_statistics reads under SpecStats
MaxSessions == 2
\* the total of a section under SpecPercent
MaxTotal == 16
\* a KMF field sent as a string has 0..MaxTextLen characters
MaxTextLen == 1

(* ------------------------- program constants --------------------------- *)
\* sm2.py:40-41, the floor of the ease factor (1.3)
MinEase == 130
\* models.py:35, Column(Float, default=2.5)
DefaultEase == 250
\* main.py:171, mastered after 5 successful repetitions
MasterReps == 5
\* schemas.py:85, ReviewSubmit.quality ge=1, le=5
MinQuality == 1
MaxQuality == 5
\* schemas.py:44, validate_kmf_section: 1 <= v <= 74
MinKmfSection == 1
MaxKmfSection == 74
\* schemas.py:51, validate_kmf_problem_set: 1 <= v <= 15
MinKmfProblemSet == 1
MaxKmfProblemSet == 15

MistakeIds == 1..MaxMistakeId
Sections == {"Quant", "Verbal"}
\* what a client can send as quality: one value outside each end of 1..5
QualityInputs == (MinQuality - 1)..(MaxQuality + 1)
\* completed_at IS NULL
Null == -1
\* a Python local that was never assigned
Unbound == -1

VARIABLES
    mistakes,   \* gre_mistakes: a function from the ids of the stored rows to rows
    exam,       \* the exam_sessions row the model follows; id 0: not created yet
    now,        \* datetime.now(), in days
    response,   \* the HTTP response of the last request: handler and status code
    reqs,       \* SpecRace: the two in-flight submit-answer requests
    sm2,        \* SpecSM2: one call of calculate_next_review, arguments and result
    vocab,      \* vocabulary: a function from the ids of the stored rows to rows
    stats,      \* SpecStats: exam_sessions and one call of get_exam_statistics
    pct         \* SpecPercent: one computation of a section's percentage

vars == <<mistakes, exam, now, response, reqs, sm2, vocab, stats, pct>>

(* ----------------------------- utils/sm2.py ---------------------------- *)
EaseDelta_SignFlipped(quality) == (5 - quality) * (8 + (5 - quality) * 2) - 10

\* 0.1 - (5 - quality) * (0.08 + (5 - quality) * 0.02), in hundredths
EaseDelta(quality) == 10 - (5 - quality) * (8 + (5 - quality) * 2)

NewEaseFactor_NoFloor(quality, ease_factor) == ease_factor + EaseDelta(quality)

\* sm2.py:37-41
NewEaseFactor(quality, ease_factor) ==
    LET raw == ease_factor + EaseDelta(quality)
    IN  IF raw < MinEase THEN MinEase ELSE raw

\* int(interval * new_ease_factor): truncation of a non-negative product
IntervalProduct(interval, new_ease_factor) == (interval * new_ease_factor) \div 100

calculate_next_review_old_ease(quality, interval, ease_factor, repetition_count, t) ==
    LET lapse == quality < 3
        new_ease_factor == IF lapse THEN Unbound ELSE NewEaseFactor(quality, ease_factor)
        new_interval ==
            IF lapse THEN 1
            ELSE IF repetition_count = 0 THEN 1
            ELSE IF repetition_count = 1 THEN 6
            ELSE IntervalProduct(interval, ease_factor)
        new_repetition_count == IF lapse THEN 0 ELSE repetition_count + 1
    IN  [raised |-> new_ease_factor = Unbound,
         new_interval |-> new_interval,
         new_ease_factor |-> new_ease_factor,
         new_repetition_count |-> new_repetition_count,
         next_review_date |-> t + new_interval]

\* sm2.py:8-56.  The lapse branch assigns new_interval and
\* new_repetition_count only; the return statement then reads the local
\* new_ease_factor, which was never bound, and raises UnboundLocalError.
calculate_next_review_due_now(quality, interval, ease_factor, repetition_count, t) ==
    LET lapse == quality < 3
        new_ease_factor == IF lapse THEN Unbound ELSE NewEaseFactor(quality, ease_factor)
        new_interval ==
            IF lapse THEN 1
            ELSE IF repetition_count = 0 THEN 1
            ELSE IF repetition_count = 1 THEN 6
            ELSE IntervalProduct(interval, new_ease_factor)
        new_repetition_count == IF lapse THEN 0 ELSE repetition_count + 1
    IN  [raised |-> new_ease_factor = Unbound,
         new_interval |-> new_interval,
         new_ease_factor |-> new_ease_factor,
         new_repetition_count |-> new_repetition_count,
         next_review_date |-> t]

calculate_next_review(quality, interval, ease_factor, repetition_count, t) ==
    LET lapse == quality < 3
        new_ease_factor == IF lapse THEN Unbound ELSE NewEaseFactor(quality, ease_factor)
        new_interval ==
            IF lapse THEN 1
            ELSE IF repetition_count = 0 THEN 1
            ELSE IF repetition_count = 1 THEN 6
            ELSE IntervalProduct(interval, new_ease_factor)
        new_repetition_count == IF lapse THEN 0 ELSE repetition_count + 1
    IN  [raised |-> new_ease_factor = Unbound,
         new_interval |-> new_interval,
         new_ease_factor |-> new_ease_factor,
         new_repetition_count |-> new_repetition_count,
         next_review_date |-> t + new_interval]

(* ------------------------------ initial state -------------------------- *)
\* answers = {}
EmptyAnswers == [k \in {} |-> TRUE]

NoExam ==
    [id |-> 0, mistake_ids |-> {}, total_problems |-> 0, answers |-> EmptyAnswers,
     correct_count |-> 0, incorrect_count |-> 0, completed_at |-> Null]

NoResponse == [op |-> "none", status |-> 0]

NoCall ==
    [quality |-> 0, interval |-> 0, ease_factor |-> 0, repetition_count |-> 0,
     called |-> FALSE,
     result |-> [raised |-> FALSE, new_interval |-> 0, new_ease_factor |-> 0,
                 new_repetition_count |-> 0, next_review_date |-> 0]]

NoReqs == <<>>

NoSectionReport ==
    [total_problems |-> 0, correct |-> 0, incorrect |-> 0, percentage |-> 0,
     exam_count |-> 0, total_mistakes |-> 0, mastered |-> 0, in_progress |-> 0]

NoStats ==
    [sessions |-> <<>>, called |-> FALSE,
     result |-> [quant |-> NoSectionReport, verbal |-> NoSectionReport, total_exams |-> 0]]

NoPercent == [correct |-> 0, total |-> 0, called |-> FALSE, percentage |-> 0]

Init ==
    /\ mistakes = <<>>
    /\ exam = NoExam
    /\ now = 0
    /\ response = NoResponse
    /\ reqs = NoReqs
    /\ sm2 = NoCall
    /\ vocab = <<>>
    /\ stats = NoStats
    /\ pct = NoPercent

Respond(op, status) == response' = [op |-> op, status |-> status]

(* --------------------------- gre_mistakes handlers --------------------- *)
\* models.py:33-41, the column defaults of a new row
NewMistake(section, t) ==
    [section |-> section,
     next_review_date |-> t,
     interval |-> 0,
     ease_factor |-> DefaultEase,
     repetition_count |-> 0,
     mastered |-> FALSE,
     total_attempts |-> 0,
     got_correct |-> FALSE,
     kmf_section |-> Null,
     kmf_problem_set |-> Null]

\* the primary key of an inserted row: above every stored id
FreshMistakeIds == {i \in MistakeIds : \A j \in DOMAIN mistakes : i > j}

(* The KMF fields of GREMistakeCreate arrive as JSON null, a number or a     *)
(* string.  A string is a sequence of characters: the digit "7" and the    *)
(* letter "a".                                                             *)
TextChars == {"7", "a"}
Texts == UNION {[1..n -> TextChars] : n \in 0..MaxTextLen}

NoneRaw == [type |-> "null", int |-> 0, text |-> <<>>]
IntRaw(n) == [type |-> "int", int |-> n, text |-> <<>>]
StrRaw(t) == [type |-> "str", int |-> 0, text |-> t]

\* what a client can send as kmf_section and as kmf_problem_set: null, the
\* numbers at and next to the ends of the range, and strings (every string
\* for kmf_section, the strings of at most one character for kmf_problem_set)
KmfSectionInputs ==
    {NoneRaw}
    \cup {IntRaw(n) : n \in {MinKmfSection - 1, MinKmfSection, MaxKmfSection, MaxKmfSection + 1}}
    \cup {StrRaw(t) : t \in Texts}
KmfProblemSetInputs ==
    {NoneRaw}
    \cup {IntRaw(n) : n \in {MinKmfProblemSet - 1, MinKmfProblemSet,
                            MaxKmfProblemSet, MaxKmfProblemSet + 1}}
    \cup {StrRaw(t) : t \in {x \in Texts : Len(x) <= 1}}

\* int(v) succeeds on a non-empty string of digits
IsNumeric(text) == text # <<>> /\ \A i \in 1..Len(text) : text[i] = "7"

RECURSIVE IntOf(_)
\* int(v) of a string of digits
IntOf(text) ==
    IF text = <<>> THEN 0
    ELSE 10 * IntOf(SubSeq(text, 1, Len(text) - 1))
         + (IF text[Len(text)] = "7" THEN 7 ELSE 0)

\* schemas.py:29-39, the mode='before' validator of both KMF fields
convert_empty_to_none(v) ==
    IF v.type = "null" THEN Null
    ELSE IF v.type = "str"
    THEN (IF v.text = <<>> THEN Null
          ELSE IF IsNumeric(v.text) THEN IntOf(v.text) ELSE Null)
    ELSE v.int

validate_kmf_section_unchecked(v) == TRUE

\* schemas.py:41-46; FALSE: the validator raises ValueError
validate_kmf_section(v) == v = Null \/ (MinKmfSection <= v /\ v <= MaxKmfSection)

\* schemas.py:48-53
validate_kmf_problem_set(v) == v = Null \/ (MinKmfProblemSet <= v /\ v <= MaxKmfProblemSet)

\* GREMistakeCreate accepts the body: otherwise FastAPI answers 422 and the
\* handler does not run
ValidMistakePayload(kmf_section, kmf_problem_set) ==
    /\ validate_kmf_section(convert_empty_to_none(kmf_section))
    /\ validate_kmf_problem_set(convert_empty_to_none(kmf_problem_set))

\* main.py:47-72 with the KMF fields of the payload
create_mistake_payload(section, kmf_section, kmf_problem_set) ==
    /\ IF ~ValidMistakePayload(kmf_section, kmf_problem_set)
       THEN /\ Respond("create_mistake", 422)
            /\ UNCHANGED mistakes
       ELSE /\ \E id \in FreshMistakeIds :
                  mistakes' = [i \in DOMAIN mistakes \cup {id} |->
                      IF i = id
                      THEN [NewMistake(section, now) EXCEPT
                               !.kmf_section = convert_empty_to_none(kmf_section),
                               !.kmf_problem_set = convert_empty_to_none(kmf_problem_set)]
                      ELSE mistakes[i]]
            /\ Respond("create_mistake", 200)
    /\ UNCHANGED <<exam, now, reqs, sm2, vocab, stats, pct>>

\* main.py:47-72, a payload without KMF fields
create_mistake(section) == create_mistake_payload(section, NoneRaw, NoneRaw)

\* main.py:187-216 with the KMF fields of the payload: every key of the
\* payload is set on the row, an absent KMF field as None
update_mistake_payload(mistake_id, section, kmf_section, kmf_problem_set) ==
    /\ IF ~ValidMistakePayload(kmf_section, kmf_problem_set)
       THEN /\ Respond("update_mistake", 422)
            /\ UNCHANGED mistakes
       ELSE IF mistake_id \notin DOMAIN mistakes
       THEN /\ Respond("update_mistake", 404)
            /\ UNCHANGED mistakes
       ELSE /\ mistakes' = [mistakes EXCEPT
                   ![mistake_id].section = section,
                   ![mistake_id].kmf_section = convert_empty_to_none(kmf_section),
                   ![mistake_id].kmf_problem_set = convert_empty_to_none(kmf_problem_set)]
            /\ Respond("update_mistake", 200)
    /\ UNCHANGED <<exam, now, reqs, sm2, vocab, stats, pct>>

update_mistake_srs_payload(mistake_id, section) ==
    /\ IF mistake_id \notin DOMAIN mistakes
       THEN /\ Respond("update_mistake", 404)
            /\ UNCHANGED mistakes
       ELSE /\ mistakes' = [mistakes EXCEPT ![mistake_id].section = section,
                                            ![mistake_id].ease_factor = 100]
            /\ Respond("update_mistake", 200)
    /\ UNCHANGED <<exam, now, reqs, sm2, vocab, stats, pct>>

update_mistake_replaces_row(mistake_id, section) ==
    /\ IF mistake_id \notin DOMAIN mistakes
       THEN /\ Respond("update_mistake", 404)
            /\ UNCHANGED mistakes
       ELSE /\ mistakes' = [mistakes EXCEPT ![mistake_id] = NewMistake(section, now)]
            /\ Respond("update_mistake", 200)
    /\ UNCHANGED <<exam, now, reqs, sm2, vocab, stats, pct>>

\* main.py:187-216, a payload without KMF fields; the payload has no
\* scheduling field (schemas.py:5-27)
update_mistake(mistake_id, section) ==
    update_mistake_payload(mistake_id, section, NoneRaw, NoneRaw)

delete_mistake_cascades(mistake_id) ==
    /\ IF mistake_id \notin DOMAIN mistakes
       THEN /\ Respond("delete_mistake", 404)
            /\ UNCHANGED <<mistakes, exam>>
       ELSE /\ mistakes' = [i \in DOMAIN mistakes \ {mistake_id} |-> mistakes[i]]
            /\ exam' = [exam EXCEPT !.mistake_ids = exam.mistake_ids \ {mistake_id},
                                    !.total_problems =
                                        Cardinality(exam.mistake_ids \ {mistake_id})]
            /\ Respond("delete_mistake", 200)
    /\ UNCHANGED <<now, reqs, sm2, vocab, stats, pct>>

\* main.py:218-227
delete_mistake(mistake_id) ==
    /\ IF mistake_id \notin DOMAIN mistakes
       THEN /\ Respond("delete_mistake", 404)
            /\ UNCHANGED mistakes
       ELSE /\ mistakes' = [i \in DOMAIN mistakes \ {mistake_id} |-> mistakes[i]]
            /\ Respond("delete_mistake", 200)
    /\ UNCHANGED <<exam, now, reqs, sm2, vocab, stats, pct>>

ReviewedRow_KeepsEase(row, quality, r) ==
    [row EXCEPT
        !.total_attempts = row.total_attempts + 1,
        !.got_correct = IF quality >= 4 THEN TRUE ELSE row.got_correct,
        !.interval = r.new_interval,
        !.repetition_count = r.new_repetition_count,
        !.next_review_date = r.next_review_date,
        !.mastered = IF r.new_repetition_count >= MasterReps THEN TRUE ELSE row.mastered]

ReviewedRow_MasterAfterFive(row, quality, r) ==
    [row EXCEPT
        !.total_attempts = row.total_attempts + 1,
        !.got_correct = IF quality >= 4 THEN TRUE ELSE row.got_correct,
        !.interval = r.new_interval,
        !.ease_factor = r.new_ease_factor,
        !.repetition_count = r.new_repetition_count,
        !.next_review_date = r.next_review_date,
        !.mastered = IF r.new_repetition_count > MasterReps THEN TRUE ELSE row.mastered]

\* main.py:149-172, the row after an accepted review
ReviewedRow(row, quality, r) ==
    [row EXCEPT
        !.total_attempts = row.total_attempts + 1,
        !.got_correct = IF quality >= 4 THEN TRUE ELSE row.got_correct,
        !.interval = r.new_interval,
        !.ease_factor = r.new_ease_factor,
        !.repetition_count = r.new_repetition_count,
        !.next_review_date = r.next_review_date,
        !.mastered = IF r.new_repetition_count >= MasterReps THEN TRUE ELSE row.mastered]

submit_review_ignores_mastered(mistake_id, quality) ==
    /\ IF quality < MinQuality \/ quality > MaxQuality
       THEN /\ Respond("submit_review", 422)
            /\ UNCHANGED mistakes
       ELSE IF mistake_id \notin DOMAIN mistakes
       THEN /\ Respond("submit_review", 404)
            /\ UNCHANGED mistakes
       ELSE LET row == mistakes[mistake_id]
                r == calculate_next_review(quality, row.interval, row.ease_factor,
                                           row.repetition_count, now)
            IN  IF r.raised
                THEN /\ Respond("submit_review", 500)
                     /\ UNCHANGED mistakes
                ELSE /\ mistakes' = [mistakes EXCEPT ![mistake_id] = ReviewedRow(row, quality, r)]
                     /\ Respond("submit_review", 200)
    /\ UNCHANGED <<exam, now, reqs, sm2, vocab, stats, pct>>

submit_review_unvalidated(mistake_id, quality) ==
    /\ IF mistake_id \notin DOMAIN mistakes
       THEN /\ Respond("submit_review", 404)
            /\ UNCHANGED mistakes
       ELSE IF mistakes[mistake_id].mastered
       THEN /\ Respond("submit_review", 400)
            /\ UNCHANGED mistakes
       ELSE LET row == mistakes[mistake_id]
                r == calculate_next_review(quality, row.interval, row.ease_factor,
                                           row.repetition_count, now)
            IN  IF r.raised
                THEN /\ Respond("submit_review", 500)
                     /\ UNCHANGED mistakes
                ELSE /\ mistakes' = [mistakes EXCEPT ![mistake_id] = ReviewedRow(row, quality, r)]
                     /\ Respond("submit_review", 200)
    /\ UNCHANGED <<exam, now, reqs, sm2, vocab, stats, pct>>

\* main.py:128-177.  ReviewSubmit rejects a quality outside 1..5 with 422
\* before the body runs.  An exception of the scheduler leaves the handler
\* before db.commit(): the response is 500 and get_db closes the session,
\* which discards the pending changes of the row.
submit_review(mistake_id, quality) ==
    /\ IF quality < MinQuality \/ quality > MaxQuality
       THEN /\ Respond("submit_review", 422)
            /\ UNCHANGED mistakes
       ELSE IF mistake_id \notin DOMAIN mistakes
       THEN /\ Respond("submit_review", 404)
            /\ UNCHANGED mistakes
       ELSE IF mistakes[mistake_id].mastered
       THEN /\ Respond("submit_review", 400)
            /\ UNCHANGED mistakes
       ELSE LET row == mistakes[mistake_id]
                r == calculate_next_review(quality, row.interval, row.ease_factor,
                                           row.repetition_count, now)
            IN  IF r.raised
                THEN /\ Respond("submit_review", 500)
                     /\ UNCHANGED mistakes
                ELSE /\ mistakes' = [mistakes EXCEPT ![mistake_id] = ReviewedRow(row, quality, r)]
                     /\ Respond("submit_review", 200)
    /\ UNCHANGED <<exam, now, reqs, sm2, vocab, stats, pct>>

\* datetime.now() moves on between requests
Tick ==
    /\ now < MaxNow
    /\ now' = now + 1
    /\ UNCHANGED <<mistakes, exam, response, reqs, sm2, vocab, stats, pct>>

\* main.py:107-126: the ids GET /reviews/today returns, the mistakes whose
\* next_review_date is not after the time of the request and that are not
\* mastered
get_today_reviews ==
    {m \in DOMAIN mistakes :
        mistakes[m].next_review_date <= now /\ ~mistakes[m].mastered}

(* --------------------------- exam_sessions handlers -------------------- *)
\* what a client can send as mistake_id of an answer (schemas.py:134-136: an
\* int, not checked against the session): the ids of the rows and one more
AnswerIds == 1..(MaxMistakeId + 1)
\* what a client can send as exam_id: the session and an id that is not stored
ExamIdInputs == {1, 2}

\* str(answer.mistake_id), the key of the JSON object
mistake_key(mistake_id) == ToString(mistake_id)

\* what a client can send in kmf_sections and in kmf_problem_sets
\* (schemas.py:129-130, List[int]): ends of the range and the number above it
KmfSectionFilterValues == {MinKmfSection, MaxKmfSection, MaxKmfSection + 1}
KmfProblemSetFilterValues == {MaxKmfProblemSet, MaxKmfProblemSet + 1}

\* main.py:344-369 with the filters sections, kmf_sections and
\* kmf_problem_sets, each the set of the values of its list: a filter that is
\* None or an empty list does not restrict, and column IN (...) is not true
\* of a row whose column is NULL
MatchingMistakes(sections, kmf_sections, kmf_problem_sets) ==
    {m \in DOMAIN mistakes :
        /\ sections = {} \/ mistakes[m].section \in sections
        /\ kmf_sections = {} \/ mistakes[m].kmf_section \in kmf_sections
        /\ kmf_problem_sets = {} \/ mistakes[m].kmf_problem_set \in kmf_problem_sets}

create_exam_session_any_filter(sections, kmf_sections, kmf_problem_sets) ==
    /\ exam.id = 0
    /\ LET matching == {m \in DOMAIN mistakes :
                           \/ sections = {} \/ mistakes[m].section \in sections
                           \/ kmf_sections = {} \/ mistakes[m].kmf_section \in kmf_sections
                           \/ kmf_problem_sets = {}
                           \/ mistakes[m].kmf_problem_set \in kmf_problem_sets}
       IN  IF matching = {}
           THEN /\ Respond("create_exam_session", 400)
                /\ UNCHANGED exam
           ELSE /\ exam' = [id |-> 1,
                            mistake_ids |-> matching,
                            total_problems |-> Cardinality(matching),
                            answers |-> EmptyAnswers,
                            correct_count |-> 0,
                            incorrect_count |-> 0,
                            completed_at |-> Null]
                /\ Respond("create_exam_session", 200)
    /\ UNCHANGED <<mistakes, now, reqs, sm2, vocab, stats, pct>>

\* main.py:333-392.  ExamSessionCreate (schemas.py:124-131) puts no range on
\* the numbers of kmf_sections and kmf_problem_sets.  The model follows the
\* first session.
create_exam_session_config(sections, kmf_sections, kmf_problem_sets) ==
    /\ exam.id = 0
    /\ LET matching == MatchingMistakes(sections, kmf_sections, kmf_problem_sets)
       IN  IF matching = {}
           THEN /\ Respond("create_exam_session", 400)
                /\ UNCHANGED exam
           ELSE /\ exam' = [id |-> 1,
                            mistake_ids |-> matching,
                            total_problems |-> Cardinality(matching),
                            answers |-> EmptyAnswers,
                            correct_count |-> 0,
                            incorrect_count |-> 0,
                            completed_at |-> Null]
                /\ Respond("create_exam_session", 200)
    /\ UNCHANGED <<mistakes, now, reqs, sm2, vocab, stats, pct>>

\* main.py:333-392, a request with the sections filter alone
create_exam_session(sections) == create_exam_session_config(sections, {}, {})

\* main.py:74-105 with the query parameters kmf_section and kmf_problem_set
\* (int, no range; Null: not given): the list is returned and nothing is written
get_all_mistakes(kmf_section, kmf_problem_set) ==
    /\ Respond("get_all_mistakes", 200)
    /\ UNCHANGED <<mistakes, exam, now, reqs, sm2, vocab, stats, pct>>

\* main.py:408-434 on the loaded object.  answers is a plain JSON column
\* (models.py:71, no MutableDict): the session learns of a change of the
\* attribute only when the attribute is assigned, which happens in
\* `if not exam.answers: exam.answers = {}` alone, that is when the loaded
\* mapping is empty; exam.answers[key] = ... changes the dict in place and
\* raises no event.  answers_set records whether the attribute was assigned.
AnswerInMemory(row, mistake_id, is_correct) ==
    LET key == mistake_key(mistake_id)
        was_already_answered == key \in DOMAIN row.answers
        previous_answer == IF was_already_answered THEN row.answers[key] ELSE FALSE
        changed == was_already_answered /\ previous_answer # is_correct
    IN  [answers |-> [k \in DOMAIN row.answers \cup {key} |->
                         IF k = key THEN is_correct ELSE row.answers[k]],
         answers_set |-> row.answers = EmptyAnswers,
         correct_count |->
             IF ~was_already_answered
             THEN (IF is_correct THEN row.correct_count + 1 ELSE row.correct_count)
             ELSE IF changed
             THEN (IF previous_answer THEN row.correct_count - 1 ELSE row.correct_count + 1)
             ELSE row.correct_count,
         incorrect_count |->
             IF ~was_already_answered
             THEN (IF is_correct THEN row.incorrect_count ELSE row.incorrect_count + 1)
             ELSE IF changed
             THEN (IF previous_answer THEN row.incorrect_count + 1 ELSE row.incorrect_count - 1)
             ELSE row.incorrect_count]

\* main.py:436, db.commit(): the UPDATE carries the columns whose attribute
\* was assigned and differs from the loaded value; every other column keeps
\* what the table holds.
FlushAnswer(stored, loaded, mem) ==
    [stored EXCEPT
        !.answers = IF mem.answers_set /\ mem.answers # loaded.answers
                    THEN mem.answers ELSE stored.answers,
        !.correct_count = IF mem.correct_count # loaded.correct_count
                          THEN mem.correct_count ELSE stored.correct_count,
        !.incorrect_count = IF mem.incorrect_count # loaded.incorrect_count
                            THEN mem.incorrect_count ELSE stored.incorrect_count]

\* the stored row after one whole submit-answer request on it
AnsweredRow(row, mistake_id, is_correct) ==
    FlushAnswer(row, row, AnswerInMemory(row, mistake_id, is_correct))

InCountRange(row) ==
    /\ row.correct_count \in (0 - MaxCount)..MaxCount
    /\ row.incorrect_count \in (0 - MaxCount)..MaxCount

submit_exam_answer_after_completion(exam_id, mistake_id, is_correct) ==
    /\ IF exam_id # exam.id
       THEN /\ Respond("submit_exam_answer", 404)
            /\ UNCHANGED exam
       ELSE /\ InCountRange(AnsweredRow(exam, mistake_id, is_correct))
            /\ exam' = AnsweredRow(exam, mistake_id, is_correct)
            /\ Respond("submit_exam_answer", 200)
    /\ UNCHANGED <<mistakes, now, reqs, sm2, vocab, stats, pct>>

\* main.py:394-439
submit_exam_answer(exam_id, mistake_id, is_correct) ==
    /\ IF exam_id # exam.id
       THEN /\ Respond("submit_exam_answer", 404)
            /\ UNCHANGED exam
       ELSE IF exam.completed_at # Null
       THEN /\ Respond("submit_exam_answer", 400)
            /\ UNCHANGED exam
       ELSE /\ InCountRange(AnsweredRow(exam, mistake_id, is_correct))
            /\ exam' = AnsweredRow(exam, mistake_id, is_correct)
            /\ Respond("submit_exam_answer", 200)
    /\ UNCHANGED <<mistakes, now, reqs, sm2, vocab, stats, pct>>

complete_exam_unchecked(exam_id) ==
    /\ IF exam_id # exam.id
       THEN /\ Respond("complete_exam", 404)
            /\ UNCHANGED exam
       ELSE /\ exam' = [exam EXCEPT !.completed_at = now]
            /\ Respond("complete_exam", 200)
    /\ UNCHANGED <<mistakes, now, reqs, sm2, vocab, stats, pct>>

\* main.py:441-455
complete_exam(exam_id) ==
    /\ IF exam_id # exam.id
       THEN /\ Respond("complete_exam", 404)
            /\ UNCHANGED exam
       ELSE IF exam.completed_at # Null
       THEN /\ Respond("complete_exam", 400)
            /\ UNCHANGED exam
       ELSE /\ exam' = [exam EXCEPT !.completed_at = now]
            /\ Respond("complete_exam", 200)
    /\ UNCHANGED <<mistakes, now, reqs, sm2, vocab, stats, pct>>

(* --------------- Spec: mistakes and one exam session, in sequence ------ *)
Next ==
    \/ \E s \in Sections : create_mistake(s)
    \/ \E m \in MistakeIds, s \in Sections : update_mistake(m, s)
    \/ \E m \in MistakeIds : delete_mistake(m)
    \/ \E f \in SUBSET Sections : create_exam_session(f)
    \/ \E e \in ExamIdInputs, m \in AnswerIds, v \in BOOLEAN : submit_exam_answer(e, m, v)
    \/ \E e \in ExamIdInputs : complete_exam(e)
    \/ Tick

Spec == Init /\ [][Next]_vars

(* ----------------------- SpecReview: the review cycle ------------------ *)
NextReview ==
    \/ \E s \in Sections : create_mistake(s)
    \/ \E m \in MistakeIds, s \in Sections : update_mistake(m, s)
    \/ \E m \in MistakeIds : delete_mistake(m)
    \/ \E m \in MistakeIds, q \in QualityInputs : submit_review(m, q)

SpecReview == Init /\ [][NextReview]_vars

(* ------- SpecAll: reviews next to one exam session, clock at day 0 ----- *)
NextAll ==
    \/ \E s \in Sections : create_mistake(s)
    \/ \E m \in MistakeIds, s \in Sections : update_mistake(m, s)
    \/ \E m \in MistakeIds : delete_mistake(m)
    \/ \E m \in MistakeIds, q \in QualityInputs : submit_review(m, q)
    \/ \E f \in SUBSET Sections : create_exam_session(f)
    \/ \E e \in ExamIdInputs, m \in AnswerIds, v \in BOOLEAN : submit_exam_answer(e, m, v)
    \/ \E e \in ExamIdInputs : complete_exam(e)

SpecAll == Init /\ [][NextAll]_vars

(* ------------- SpecRace: two submit-answer requests, interleaved ------- *)
\* Each request has its own Session (database.py:33-38) and the handler
\* takes no lock: it SELECTs the row, works on the loaded object, and its
\* commit sends an UPDATE of the columns it changed.
Procs == {1, 2}

\* a session over every row of gre_mistakes, as create_exam_session leaves it
FreshExam ==
    [id |-> 1, mistake_ids |-> MistakeIds, total_problems |-> MaxMistakeId,
     answers |-> EmptyAnswers, correct_count |-> 0, incorrect_count |-> 0,
     completed_at |-> Null]

\* the in-progress sessions the race starts from: new, or with one answer
RaceStarts ==
    {FreshExam} \cup {AnsweredRow(FreshExam, m, v) : m \in AnswerIds, v \in BOOLEAN}

AnswerRequests ==
    [mistake_id : AnswerIds, is_correct : BOOLEAN, pc : {"start"},
     loaded : {NoExam}, status : {0}]

InitRace ==
    /\ mistakes = [i \in MistakeIds |-> NewMistake("Quant", 0)]
    /\ exam \in RaceStarts
    /\ now = 0
    /\ response = NoResponse
    /\ reqs \in {[start |-> exam, req |-> r] : r \in [Procs -> AnswerRequests]}
    /\ sm2 = NoCall
    /\ vocab = <<>>
    /\ stats = NoStats
    /\ pct = NoPercent

\* main.py:401-406, the SELECT and the two checks
LoadAnswer(p) ==
    /\ reqs.req[p].pc = "start"
    /\ IF exam.id # 1
       THEN /\ reqs' = [reqs EXCEPT !.req[p].pc = "done", !.req[p].status = 404]
            /\ Respond("submit_exam_answer", 404)
       ELSE IF exam.completed_at # Null
       THEN /\ reqs' = [reqs EXCEPT !.req[p].pc = "done", !.req[p].status = 400]
            /\ Respond("submit_exam_answer", 400)
       ELSE /\ reqs' = [reqs EXCEPT !.req[p].pc = "loaded", !.req[p].loaded = exam]
            /\ UNCHANGED response
    /\ UNCHANGED <<mistakes, exam, now, sm2, vocab, stats, pct>>

\* main.py:408-439, the work on the loaded object and db.commit()
CommitAnswer(p) ==
    /\ reqs.req[p].pc = "loaded"
    /\ LET r == reqs.req[p]
       IN  exam' = FlushAnswer(exam, r.loaded,
                               AnswerInMemory(r.loaded, r.mistake_id, r.is_correct))
    /\ reqs' = [reqs EXCEPT !.req[p].pc = "done", !.req[p].status = 200]
    /\ Respond("submit_exam_answer", 200)
    /\ UNCHANGED <<mistakes, now, sm2, vocab, stats, pct>>

NextRace ==
    \/ \E p \in Procs : LoadAnswer(p)
    \/ \E p \in Procs : CommitAnswer(p)

SpecRace == InitRace /\ [][NextRace]_vars

(* --- SpecFinish: a complete request and a submit-answer request, each --- *)
(* --- in its own worker process, on one in-progress session            --- *)
\* the process of the submit-answer request
Answerer == 1

CompleteRequest == [pc |-> "start", status |-> 0]

InitFinish ==
    /\ mistakes = [i \in MistakeIds |-> NewMistake("Quant", 0)]
    /\ exam \in RaceStarts
    /\ now = 0
    /\ response = NoResponse
    /\ reqs \in {[start |-> exam, req |-> r, complete |-> CompleteRequest] :
                    r \in [{Answerer} -> AnswerRequests]}
    /\ sm2 = NoCall
    /\ vocab = <<>>
    /\ stats = NoStats
    /\ pct = NoPercent

\* main.py:444-449, the SELECT and the two checks of complete_exam
LoadComplete ==
    /\ reqs.complete.pc = "start"
    /\ IF exam.id # 1
       THEN /\ reqs' = [reqs EXCEPT !.complete = [pc |-> "done", status |-> 404]]
            /\ Respond("complete_exam", 404)
       ELSE IF exam.completed_at # Null
       THEN /\ reqs' = [reqs EXCEPT !.complete = [pc |-> "done", status |-> 400]]
            /\ Respond("complete_exam", 400)
       ELSE /\ reqs' = [reqs EXCEPT !.complete.pc = "loaded"]
            /\ UNCHANGED response
    /\ UNCHANGED <<mistakes, exam, now, sm2, vocab, stats, pct>>

\* main.py:451-453: completed_at is assigned and db.commit() writes that
\* column; the other columns keep what the table holds
CommitComplete ==
    /\ reqs.complete.pc = "loaded"
    /\ exam' = [exam EXCEPT !.completed_at = now]
    /\ reqs' = [reqs EXCEPT !.complete = [pc |-> "done", status |-> 200]]
    /\ Respond("complete_exam", 200)
    /\ UNCHANGED <<mistakes, now, sm2, vocab, stats, pct>>

NextFinish ==
    \/ LoadAnswer(Answerer)
    \/ CommitAnswer(Answerer)
    \/ LoadComplete
    \/ CommitComplete

SpecFinish == InitFinish /\ [][NextFinish]_vars

(* ------------------- SpecSM2: the scheduler as a function -------------- *)
SM2Inputs ==
    {[NoCall EXCEPT !.quality = q, !.interval = i, !.ease_factor = e,
                    !.repetition_count = n] :
        q \in MinQuality..MaxQuality, i \in 0..MaxIntervalInput,
        e \in MinEase..MaxEaseInput, n \in 0..MaxRepInput}

InitSM2 ==
    /\ mistakes = <<>>
    /\ exam = NoExam
    /\ now = 0
    /\ response = NoResponse
    /\ reqs = NoReqs
    /\ sm2 \in SM2Inputs
    /\ vocab = <<>>
    /\ stats = NoStats
    /\ pct = NoPercent

CallSM2 ==
    /\ ~sm2.called
    /\ sm2' = [sm2 EXCEPT
                  !.called = TRUE,
                  !.result = calculate_next_review(sm2.quality, sm2.interval,
                                 sm2.ease_factor, sm2.repetition_count, now)]
    /\ UNCHANGED <<mistakes, exam, now, response, reqs, vocab, stats, pct>>

SpecSM2 == InitSM2 /\ [][CallSM2]_vars

(* -------- SpecDue: the reviews of the first mistake as time passes ------ *)
\* main.py:47-72, the request that stores the first mistake
create_first_mistake(section) ==
    /\ mistakes = <<>>
    /\ create_mistake(section)

NextDue ==
    \/ \E s \in Sections : create_first_mistake(s)
    \/ \E m \in MistakeIds, q \in QualityInputs : submit_review(m, q)
    \/ Tick

SpecDue == Init /\ [][NextDue]_vars

(* ------ SpecKmf: the KMF fields of the payloads of the first mistake ---- *)
\* main.py:47-72 with the KMF fields, the request that stores the first mistake
create_first_mistake_payload(section, kmf_section, kmf_problem_set) ==
    /\ mistakes = <<>>
    /\ create_mistake_payload(section, kmf_section, kmf_problem_set)

NextKmf ==
    \/ \E s \in Sections, a \in KmfSectionInputs, b \in KmfProblemSetInputs :
          create_first_mistake_payload(s, a, b)
    \/ \E m \in MistakeIds, s \in Sections, a \in KmfSectionInputs,
          b \in KmfProblemSetInputs :
          update_mistake_payload(m, s, a, b)
    \/ \E m \in MistakeIds : delete_mistake(m)

SpecKmf == Init /\ [][NextKmf]_vars

(* ------ SpecExamCreate: exam creation and the list query on a table ---- *)
\* the values create and update leave in kmf_section and kmf_problem_set:
\* absent, the ends of the range, and the number a string of digits gives
StoredKmfSections == {Null, MinKmfSection, 7, MaxKmfSection}
StoredKmfProblemSets == {Null, MinKmfProblemSet, MaxKmfProblemSet}

KmfRows ==
    {[NewMistake(section, 0) EXCEPT !.kmf_section = a, !.kmf_problem_set = b] :
        section \in Sections, a \in StoredKmfSections, b \in StoredKmfProblemSets}

KmfTables == UNION {[S -> KmfRows] : S \in SUBSET MistakeIds}

InitExamCreate ==
    /\ mistakes \in KmfTables
    /\ exam = NoExam
    /\ now = 0
    /\ response = NoResponse
    /\ reqs = NoReqs
    /\ sm2 = NoCall
    /\ vocab = <<>>
    /\ stats = NoStats
    /\ pct = NoPercent

NextExamCreate ==
    \/ \E f \in SUBSET Sections, ks \in SUBSET KmfSectionFilterValues,
          kp \in SUBSET KmfProblemSetFilterValues :
          create_exam_session_config(f, ks, kp)
    \/ \E k \in KmfSectionFilterValues \cup {Null},
          p \in KmfProblemSetFilterValues \cup {Null} :
          get_all_mistakes(k, p)

SpecExamCreate == InitExamCreate /\ [][NextExamCreate]_vars

(* ------------------------- vocabulary handlers ------------------------- *)
\* The characters of a word: an ASCII letter in both cases, a letter outside
\* ASCII in both cases (e with acute, U+00E9 and U+00C9), and the wildcard
\* of LIKE.
Chars == {"a", "A", "U+00E9", "U+00C9", "%"}
Words == UNION {[1..n -> Chars] : n \in 1..MaxWordLen}
\* VocabularyUpdate.word is Optional: the payload without a word
NoWord == <<>>
VocabIds == 1..MaxVocabId

\* lower() of the database.  database.py:10-15: without DATABASE_URL the
\* engine is SQLite, whose lower() and LIKE fold the 26 ASCII letters only.
SqlLower(c) == IF c = "A" THEN "a" ELSE c

RECURSIVE Like(_, _)
\* `s LIKE p`: % in the pattern stands for any sequence of characters, every
\* other character for itself (the query passes no ESCAPE)
Like(s, p) ==
    IF p = <<>> THEN s = <<>>
    ELSE IF Head(p) = "%"
    THEN \E k \in 0..Len(s) : Like(SubSeq(s, k + 1, Len(s)), Tail(p))
    ELSE /\ s # <<>>
         /\ SqlLower(Head(s)) = SqlLower(Head(p))
         /\ Like(Tail(s), Tail(p))

\* Vocabulary.word.ilike(pattern), compiled for SQLite as
\* lower(word) LIKE lower(pattern)
ilike(word, pattern) ==
    Like([i \in 1..Len(word) |-> SqlLower(word[i])],
         [i \in 1..Len(pattern) |-> SqlLower(pattern[i])])

FreshVocabIds == {i \in VocabIds : \A j \in DOMAIN vocab : i > j}

\* main.py:564-588
create_vocabulary(word) ==
    /\ IF \E i \in DOMAIN vocab : ilike(vocab[i].word, word)
       THEN /\ Respond("create_vocabulary", 400)
            /\ UNCHANGED vocab
       ELSE /\ \E id \in FreshVocabIds :
                  vocab' = [i \in DOMAIN vocab \cup {id} |->
                               IF i = id THEN [word |-> word] ELSE vocab[i]]
            /\ Respond("create_vocabulary", 200)
    /\ UNCHANGED <<mistakes, exam, now, reqs, sm2, stats, pct>>

\* main.py:624-664; the other fields of the payload do not touch word
update_vocabulary(vocab_id, word) ==
    /\ IF vocab_id \notin DOMAIN vocab
       THEN /\ Respond("update_vocabulary", 404)
            /\ UNCHANGED vocab
       ELSE IF word = NoWord
       THEN /\ Respond("update_vocabulary", 200)
            /\ UNCHANGED vocab
       ELSE IF \E i \in DOMAIN vocab \ {vocab_id} : ilike(vocab[i].word, word)
       THEN /\ Respond("update_vocabulary", 400)
            /\ UNCHANGED vocab
       ELSE /\ vocab' = [vocab EXCEPT ![vocab_id].word = word]
            /\ Respond("update_vocabulary", 200)
    /\ UNCHANGED <<mistakes, exam, now, reqs, sm2, stats, pct>>

\* main.py:667-677
delete_vocabulary(vocab_id) ==
    /\ IF vocab_id \notin DOMAIN vocab
       THEN /\ Respond("delete_vocabulary", 404)
            /\ UNCHANGED vocab
       ELSE /\ vocab' = [i \in DOMAIN vocab \ {vocab_id} |-> vocab[i]]
            /\ Respond("delete_vocabulary", 200)
    /\ UNCHANGED <<mistakes, exam, now, reqs, sm2, stats, pct>>

(* ------------- SpecVocab: the vocabulary, one request after another ---- *)
NextVocab ==
    \/ \E w \in Words : create_vocabulary(w)
    \/ \E i \in VocabIds, w \in Words \cup {NoWord} : update_vocabulary(i, w)
    \/ \E i \in VocabIds : delete_vocabulary(i)

SpecVocab == Init /\ [][NextVocab]_vars

(* --- SpecVocabRace: two vocabulary requests, each in its own worker  --- *)
(* --- process, that carry the word "a" in one of its two casings      --- *)
RaceWords == {<<"a">>, <<"A">>}

\* the vocabulary the race starts from: empty, or the entry 1 with a word of
\* one character
VocabStarts ==
    {<<>>} \cup {[i \in {1} |-> [word |-> w]] : w \in {x \in Words : Len(x) = 1}}

\* a create request, or a rename of entry 1
VocabRequests ==
    [kind : {"create", "rename"}, vocab_id : {1}, word : RaceWords,
     pc : {"start"}, status : {0}]

InitVocabRace ==
    /\ mistakes = <<>>
    /\ exam = NoExam
    /\ now = 0
    /\ response = NoResponse
    /\ reqs \in {[req |-> r] : r \in [Procs -> VocabRequests]}
    /\ sm2 = NoCall
    /\ vocab \in VocabStarts
    /\ stats = NoStats
    /\ pct = NoPercent

\* main.py:568-570, the query for an existing match of create_vocabulary
CheckCreate(p) ==
    /\ reqs.req[p].kind = "create"
    /\ reqs.req[p].pc = "start"
    /\ IF \E i \in DOMAIN vocab : ilike(vocab[i].word, reqs.req[p].word)
       THEN /\ reqs' = [reqs EXCEPT !.req[p].pc = "done", !.req[p].status = 400]
            /\ Respond("create_vocabulary", 400)
       ELSE /\ reqs' = [reqs EXCEPT !.req[p].pc = "checked"]
            /\ UNCHANGED response
    /\ UNCHANGED <<mistakes, exam, now, sm2, vocab, stats, pct>>

\* main.py:572-586, the INSERT and db.commit() of create_vocabulary
InsertCreate(p) ==
    /\ reqs.req[p].kind = "create"
    /\ reqs.req[p].pc = "checked"
    /\ \E id \in FreshVocabIds :
          vocab' = [i \in DOMAIN vocab \cup {id} |->
                       IF i = id THEN [word |-> reqs.req[p].word] ELSE vocab[i]]
    /\ reqs' = [reqs EXCEPT !.req[p].pc = "done", !.req[p].status = 200]
    /\ Respond("create_vocabulary", 200)
    /\ UNCHANGED <<mistakes, exam, now, sm2, stats, pct>>

\* main.py:630-643, the two queries of update_vocabulary
CheckRename(p) ==
    /\ reqs.req[p].kind = "rename"
    /\ reqs.req[p].pc = "start"
    /\ LET r == reqs.req[p]
       IN  IF r.vocab_id \notin DOMAIN vocab
           THEN /\ reqs' = [reqs EXCEPT !.req[p].pc = "done", !.req[p].status = 404]
                /\ Respond("update_vocabulary", 404)
           ELSE IF \E i \in DOMAIN vocab \ {r.vocab_id} : ilike(vocab[i].word, r.word)
           THEN /\ reqs' = [reqs EXCEPT !.req[p].pc = "done", !.req[p].status = 400]
                /\ Respond("update_vocabulary", 400)
           ELSE /\ reqs' = [reqs EXCEPT !.req[p].pc = "checked"]
                /\ UNCHANGED response
    /\ UNCHANGED <<mistakes, exam, now, sm2, vocab, stats, pct>>

\* main.py:644-661, the assignment of word and db.commit() of
\* update_vocabulary (no request of this specification deletes the entry)
CommitRename(p) ==
    /\ reqs.req[p].kind = "rename"
    /\ reqs.req[p].pc = "checked"
    /\ vocab' = [vocab EXCEPT ![reqs.req[p].vocab_id].word = reqs.req[p].word]
    /\ reqs' = [reqs EXCEPT !.req[p].pc = "done", !.req[p].status = 200]
    /\ Respond("update_vocabulary", 200)
    /\ UNCHANGED <<mistakes, exam, now, sm2, stats, pct>>

NextVocabRace ==
    \/ \E p \in Procs : CheckCreate(p)
    \/ \E p \in Procs : InsertCreate(p)
    \/ \E p \in Procs : CheckRename(p)
    \/ \E p \in Procs : CommitRename(p)

SpecVocabRace == InitVocabRace /\ [][NextVocabRace]_vars

(* --------------------------- get_exam_statistics ----------------------- *)
\* round(x, 1) of x = num / den, in tenths when num is 1000 times the count:
\* the nearest tenth, a tie going to the even one.  correct / total * 100 in
\* doubles followed by round(., 1) gives this value for every total below 80.
RoundHalfEven(num, den) ==
    LET q == num \div den
        r == num % den
    IN  IF 2 * r > den THEN q + 1
        ELSE IF 2 * r < den THEN q
        ELSE IF q % 2 = 0 THEN q ELSE q + 1

Percentage_Truncated(correct, total) ==
    IF total > 0 THEN (1000 * correct) \div total ELSE 0

\* main.py:519-520 and 535, 545: the percentage of a section, in tenths
Percentage(correct, total) ==
    IF total > 0 THEN RoundHalfEven(1000 * correct, total) ELSE 0

\* main.py:473-481
ZeroTally ==
    [s \in Sections |->
        [total_problems |-> 0, correct |-> 0, incorrect |-> 0, exam_ids |-> {}]]

\* main.py:492-510, the body of the inner loop for one mistake_id of a session
CountMistake(tally, exam_id, row, table, mistake_id) ==
    IF mistake_id \notin DOMAIN table THEN tally
    ELSE LET section == table[mistake_id].section
             key == mistake_key(mistake_id)
             is_correct == IF key \in DOMAIN row.answers THEN row.answers[key] ELSE FALSE
         IN  IF section \notin Sections THEN tally
             ELSE [tally EXCEPT
                      ![section].total_problems = @ + 1,
                      ![section].correct = IF is_correct THEN @ + 1 ELSE @,
                      ![section].incorrect = IF is_correct THEN @ ELSE @ + 1,
                      ![section].exam_ids = @ \cup {exam_id}]

RECURSIVE TallyExam(_, _, _, _, _)
\* main.py:491-516, the inner loop over exam.mistake_ids
TallyExam(tally, exam_id, row, table, ids) ==
    IF ids = {} THEN tally
    ELSE LET m == CHOOSE x \in ids : \A y \in ids : x <= y
         IN  TallyExam(CountMistake(tally, exam_id, row, table, m),
                       exam_id, row, table, ids \ {m})

RECURSIVE TallyExams(_, _, _, _)
\* main.py:484-516, the loop over all_exams
TallyExams(tally, sessions, table, ids) ==
    IF ids = {} THEN tally
    ELSE LET e == CHOOSE x \in ids : \A y \in ids : x <= y
         IN  TallyExams(TallyExam(tally, e, sessions[e], table, sessions[e].mistake_ids),
                        sessions, table, ids \ {e})

AllExams_WithOpen(sessions) == DOMAIN sessions

\* main.py:468-470, the sessions whose completed_at is not NULL
AllExams(sessions) == {e \in DOMAIN sessions : sessions[e].completed_at # Null}

\* main.py:530-550, the report of one section
SectionReport(section, tally, table) ==
    LET section_mistakes == {m \in DOMAIN table : table[m].section = section}
        section_mastered == {m \in section_mistakes : table[m].mastered}
    IN  [total_problems |-> tally[section].total_problems,
         correct |-> tally[section].correct,
         incorrect |-> tally[section].incorrect,
         percentage |-> Percentage(tally[section].correct, tally[section].total_problems),
         exam_count |-> Cardinality(tally[section].exam_ids),
         total_mistakes |-> Cardinality(section_mistakes),
         mastered |-> Cardinality(section_mastered),
         in_progress |-> Cardinality(section_mistakes) - Cardinality(section_mastered)]

\* main.py:465-552, the returned dict
ExamStatistics(sessions, table) ==
    LET all_exams == AllExams(sessions)
        tally == TallyExams(ZeroTally, sessions, table, all_exams)
    IN  [quant |-> SectionReport("Quant", tally, table),
         verbal |-> SectionReport("Verbal", tally, table),
         total_exams |-> Cardinality(all_exams)]

(* ------- SpecStats: one call of get_exam_statistics on stored rows ----- *)
SessionIds == 1..MaxSessions

\* the mappings answers can hold for the mistakes of the table
AnswerMaps == UNION {[{mistake_key(m) : m \in S} -> BOOLEAN] : S \in SUBSET MistakeIds}

\* the columns of exam_sessions the handler reads; a session was created over
\* at least one mistake (main.py:372-373)
SessionRows ==
    [completed_at : {Null, 0},
     mistake_ids : (SUBSET MistakeIds) \ {{}},
     answers : AnswerMaps]

\* gre_mistakes: the rows that were not deleted, each in one section
MistakeTables ==
    UNION {[S -> {NewMistake(section, 0) : section \in Sections}] : S \in SUBSET MistakeIds}

InitStats ==
    /\ mistakes \in MistakeTables
    /\ exam = NoExam
    /\ now = 0
    /\ response = NoResponse
    /\ reqs = NoReqs
    /\ sm2 = NoCall
    /\ vocab = <<>>
    /\ stats \in {[NoStats EXCEPT !.sessions = t] : t \in [SessionIds -> SessionRows]}
    /\ pct = NoPercent

get_exam_statistics ==
    /\ ~stats.called
    /\ stats' = [stats EXCEPT !.called = TRUE,
                              !.result = ExamStatistics(stats.sessions, mistakes)]
    /\ Respond("get_exam_statistics", 200)
    /\ UNCHANGED <<mistakes, exam, now, reqs, sm2, vocab, pct>>

SpecStats == InitStats /\ [][get_exam_statistics]_vars

(* ---------- SpecPercent: the percentage of a section as a function ----- *)
PercentInputs ==
    {[NoPercent EXCEPT !.correct = c, !.total = t] : c \in 0..MaxTotal, t \in 0..MaxTotal}

InitPercent ==
    /\ mistakes = <<>>
    /\ exam = NoExam
    /\ now = 0
    /\ response = NoResponse
    /\ reqs = NoReqs
    /\ sm2 = NoCall
    /\ vocab = <<>>
    /\ stats = NoStats
    /\ pct \in {i \in PercentInputs : i.correct <= i.total}

CallPercentage ==
    /\ ~pct.called
    /\ pct' = [pct EXCEPT !.called = TRUE,
                          !.percentage = Percentage(pct.correct, pct.total)]
    /\ UNCHANGED <<mistakes, exam, now, response, reqs, sm2, vocab, stats>>

SpecPercent == InitPercent /\ [][CallPercentage]_vars

(* ================================ claims =============================== *)
StoredIds == DOMAIN mistakes
KeptIds == DOMAIN mistakes \cap DOMAIN mistakes'

\* C1 (SpecReview): a review with quality 1 or 2 on a stored mistake that is
\* not mastered is answered with a result, and leaves interval = 1,
\* repetition_count = 0 and the ease factor it had.
C1_LapseResetsSchedule ==
    [][\A m \in MistakeIds, q \in {1, 2} :
          (m \in StoredIds /\ ~mistakes[m].mastered /\ submit_review(m, q))
          => /\ response'.status = 200
             /\ mistakes'[m].interval = 1
             /\ mistakes'[m].repetition_count = 0
             /\ mistakes'[m].ease_factor = mistakes[m].ease_factor]_vars

\* C2 (Spec): in every stored state of the session correct_count +
\* incorrect_count is the number of keys of answers, correct_count the number
\* of keys mapped to true and incorrect_count the number mapped to false.
C2_CountersMatchAnswers ==
    exam.id # 0 =>
        /\ exam.correct_count + exam.incorrect_count = Cardinality(DOMAIN exam.answers)
        /\ exam.correct_count = Cardinality({k \in DOMAIN exam.answers : exam.answers[k]})
        /\ exam.incorrect_count = Cardinality({k \in DOMAIN exam.answers : ~exam.answers[k]})

\* C3 (SpecReview): a stored mistake is mastered exactly when its
\* repetition_count is at least 5, and mastered changes only in the accepted
\* review that takes repetition_count from 4 to 5.
C3_MasteredIffFiveReps ==
    /\ [](\A m \in StoredIds :
             mistakes[m].mastered <=> mistakes[m].repetition_count >= MasterReps)
    /\ [][\A m \in KeptIds :
             mistakes'[m].mastered # mistakes[m].mastered
             => /\ response' = [op |-> "submit_review", status |-> 200]
                /\ mistakes[m].repetition_count = MasterReps - 1
                /\ mistakes'[m].repetition_count = MasterReps
                /\ mistakes'[m].mastered]_vars

C3_Witness ==
    \E m \in StoredIds :
        /\ mistakes[m].mastered
        /\ mistakes[m].repetition_count = MasterReps
        /\ response = [op |-> "submit_review", status |-> 200]

\* C4 (SpecReview): a mastered mistake stays mastered in every step that
\* does not delete it, whatever review or edit is requested.
C4_MasteredStays ==
    [][\A m \in KeptIds : mistakes[m].mastered => mistakes'[m].mastered]_vars

C4_Witness ==
    \E m \in StoredIds :
        /\ mistakes[m].mastered
        /\ response = [op |-> "update_mistake", status |-> 200]

\* C5 (Spec): submit-answer on the completed session is answered with the
\* error 400 and no step changes answers or the counters of a completed session.
C5_CompletedRejectsAnswers ==
    [][exam.completed_at # Null
       => /\ exam'.answers = exam.answers
          /\ exam'.correct_count = exam.correct_count
          /\ exam'.incorrect_count = exam.incorrect_count
          /\ \A m \in AnswerIds, v \in BOOLEAN :
                submit_exam_answer(exam.id, m, v)
                => response' = [op |-> "submit_exam_answer", status |-> 400]]_vars

C5_Witness ==
    /\ exam.completed_at # Null
    /\ exam.answers # EmptyAnswers
    /\ response = [op |-> "submit_exam_answer", status |-> 400]

\* C6 (Spec): completed_at is set once, by an accepted complete request and
\* to the time of that request; afterwards it keeps its value and a further
\* complete request on the session is answered with the error 400.
C6_CompletedIsTerminal ==
    [][/\ exam.completed_at # Null
          => /\ exam'.completed_at = exam.completed_at
             /\ complete_exam(exam.id)
                => response' = [op |-> "complete_exam", status |-> 400]
       /\ exam'.completed_at # exam.completed_at
          => /\ exam.id # 0
             /\ exam.completed_at = Null
             /\ exam'.completed_at = now
             /\ response' = [op |-> "complete_exam", status |-> 200]]_vars

C6_Witness ==
    /\ exam.completed_at # Null
    /\ now > exam.completed_at
    /\ response = [op |-> "complete_exam", status |-> 400]

\* the stored row after the two requests of the race, one whole request
\* after the other
SerialOutcomes ==
    LET a == reqs.req[1]
        b == reqs.req[2]
    IN  {AnsweredRow(AnsweredRow(reqs.start, a.mistake_id, a.is_correct),
                     b.mistake_id, b.is_correct),
         AnsweredRow(AnsweredRow(reqs.start, b.mistake_id, b.is_correct),
                     a.mistake_id, a.is_correct)}

\* C7 (SpecRace): when both requests are done the stored row is the one a
\* serial order leaves, and two first answers for different mistake ids leave
\* two keys and correct_count + incorrect_count = 2.
C7_NoLostUpdate ==
    (\A p \in Procs : reqs.req[p].pc = "done")
    => /\ exam \in SerialOutcomes
       /\ (reqs.start.answers = EmptyAnswers
           /\ reqs.req[1].mistake_id # reqs.req[2].mistake_id)
          => /\ Cardinality(DOMAIN exam.answers) = 2
             /\ exam.correct_count + exam.incorrect_count = 2

\* C8 (SpecReview): the ease factor of every stored mistake is at least 1.3;
\* a new row has 2.5 and an edit leaves the ease factor as it was.
C8_EaseAtLeastFloor ==
    /\ [](\A m \in StoredIds : mistakes[m].ease_factor >= MinEase)
    /\ [][/\ \A m \in DOMAIN mistakes' \ DOMAIN mistakes :
                mistakes'[m].ease_factor = DefaultEase
          /\ \A m \in KeptIds, s \in Sections :
                update_mistake(m, s)
                => mistakes'[m].ease_factor = mistakes[m].ease_factor]_vars

\* the lowest ease factor a stored mistake reaches, after an edit
C8_Witness ==
    \E m \in StoredIds :
        /\ mistakes[m].ease_factor = DefaultEase - 5 * 14
        /\ response = [op |-> "update_mistake", status |-> 200]

\* C9 (SpecSM2): for quality 3..5 the call returns; the new interval is 1
\* at repetition_count 0, 6 at repetition_count 1 and otherwise the integer
\* part of interval times the new ease factor; repetition_count grows by 1.
C9_IntervalOnSuccess ==
    (sm2.called /\ sm2.quality >= 3)
    => LET r == sm2.result
       IN  /\ ~r.raised
           /\ r.new_repetition_count = sm2.repetition_count + 1
           /\ sm2.repetition_count = 0 => r.new_interval = 1
           /\ sm2.repetition_count = 1 => r.new_interval = 6
           /\ sm2.repetition_count >= 2
              => /\ 100 * r.new_interval <= sm2.interval * r.new_ease_factor
                 /\ sm2.interval * r.new_ease_factor < 100 * (r.new_interval + 1)

\* interval 3 and the new ease factor 1.3 give 3.9 and so 3; the prior ease
\* factor 1.35 would give 4.05 and so 4
C9_Witness ==
    /\ sm2.called
    /\ sm2.quality = 3
    /\ sm2.repetition_count = 2
    /\ sm2.interval = 3
    /\ sm2.ease_factor = 135
    /\ sm2.result.new_interval = 3

\* C10 (SpecSM2): for quality 3, 4, 5 the new ease factor is the prior one
\* minus 0.14, unchanged, plus 0.10, and 1.3 when that is below 1.3.
C10_EaseUpdate ==
    (sm2.called /\ sm2.quality >= 3)
    => LET change == CASE sm2.quality = 3 -> 0 - 14
                       [] sm2.quality = 4 -> 0
                       [] sm2.quality = 5 -> 10
           moved == sm2.ease_factor + change
       IN  /\ moved >= MinEase => sm2.result.new_ease_factor = moved
           /\ moved < MinEase => sm2.result.new_ease_factor = MinEase

\* the floor takes effect: 1.35 - 0.14 is below 1.3
C10_Witness ==
    /\ sm2.called
    /\ sm2.quality = 3
    /\ sm2.ease_factor = 135
    /\ sm2.result.new_ease_factor = MinEase

\* the session exists and is not completed
InProgress == exam.id # 0 /\ exam.completed_at = Null

\* C11 (Spec): after an accepted submit-answer (m, v) on the in-progress
\* session, the same request once more leaves correct_count, incorrect_count
\* and answers as the first one left them, for every m and at any point.
C11_RepeatIsNoOp ==
    [][\A m \in AnswerIds, v \in BOOLEAN :
          (InProgress /\ submit_exam_answer(exam.id, m, v))
          => AnsweredRow(exam', m, v) = exam']_vars

\* C12 (Spec): neither counter is ever negative, and a submit-answer that
\* carries the opposite of the value recorded for its mistake id takes 1 from
\* the counter of the old value and adds 1 to the counter of the new value.
C12_FlipMovesOne ==
    /\ [](exam.correct_count >= 0 /\ exam.incorrect_count >= 0)
    /\ [][\A m \in AnswerIds, v \in BOOLEAN :
             (/\ InProgress
              /\ mistake_key(m) \in DOMAIN exam.answers
              /\ exam.answers[mistake_key(m)] # v
              /\ submit_exam_answer(exam.id, m, v))
             => /\ exam'.correct_count = exam.correct_count + (IF v THEN 1 ELSE 0 - 1)
                /\ exam'.incorrect_count = exam.incorrect_count + (IF v THEN 0 - 1 ELSE 1)]_vars

\* C13 (Spec): after an accepted submit-answer (m, v) the stored answers map
\* m to v and every other key keeps its value, for the first answer of the
\* session and for every later one.
C13_LatestAnswerStored ==
    [][\A m \in AnswerIds, v \in BOOLEAN :
          (InProgress /\ submit_exam_answer(exam.id, m, v))
          => /\ DOMAIN exam'.answers = DOMAIN exam.answers \cup {mistake_key(m)}
             /\ exam'.answers[mistake_key(m)] = v
             /\ \A k \in DOMAIN exam.answers \ {mistake_key(m)} :
                   exam'.answers[k] = exam.answers[k]]_vars

\* C14 (SpecReview): a review of a mastered mistake is answered with an
\* error (400, or 422 when the quality is out of range) and leaves every
\* field of every stored mistake as it was.
C14_MasteredRejectsReview ==
    [][\A m \in StoredIds, q \in QualityInputs :
          (mistakes[m].mastered /\ submit_review(m, q))
          => /\ response'.op = "submit_review"
             /\ response'.status = (IF q \in MinQuality..MaxQuality THEN 400 ELSE 422)
             /\ mistakes' = mistakes]_vars

C14_Witness ==
    \E m \in StoredIds :
        /\ mistakes[m].mastered
        /\ mistakes[m].total_attempts = MasterReps
        /\ response = [op |-> "submit_review", status |-> 400]

\* C15 (SpecReview): a review whose quality is outside 1..5 is answered with
\* the validation error 422, not with a result or an error of the scheduler,
\* and leaves every stored mistake, total_attempts included, as it was.
C15_QualityOutOfRange ==
    [][\A m \in MistakeIds, q \in QualityInputs \ (MinQuality..MaxQuality) :
          submit_review(m, q)
          => /\ response' = [op |-> "submit_review", status |-> 422]
             /\ mistakes' = mistakes]_vars

C15_Witness ==
    \E m \in StoredIds :
        /\ ~mistakes[m].mastered
        /\ mistakes[m].total_attempts > 0
        /\ response = [op |-> "submit_review", status |-> 422]

\* the row of a mistake after k accepted reviews since its creation, each of
\* quality 5: only quality 5 adds 0.1 to the ease factor
OnFiveChain(row, k) ==
    /\ row.total_attempts = k
    /\ row.repetition_count = k
    /\ row.ease_factor = DefaultEase + 10 * k

\* C16 (SpecReview): from a new mistake, each of five reviews of quality 5
\* in a row is accepted; after the first the row has interval 1,
\* repetition_count 1, ease factor 2.6; the row is not mastered after one to
\* four of them and is mastered after the fifth.
C16_FiveFives ==
    /\ [](\A m \in StoredIds, k \in 0..MasterReps :
             OnFiveChain(mistakes[m], k)
             => /\ mistakes[m].mastered <=> k = MasterReps
                /\ k = 1 => mistakes[m].interval = 1)
    /\ [][\A m \in StoredIds, k \in 0..(MasterReps - 1) :
             (OnFiveChain(mistakes[m], k) /\ submit_review(m, MaxQuality))
             => /\ response' = [op |-> "submit_review", status |-> 200]
                /\ OnFiveChain(mistakes'[m], k + 1)]_vars

C16_Witness ==
    \E m \in StoredIds :
        /\ OnFiveChain(mistakes[m], MasterReps)
        /\ mistakes[m].mastered
        /\ mistakes[m].interval = 138
        /\ response = [op |-> "submit_review", status |-> 200]

\* C17 (SpecAll): once the session is created, no request (submit-answer,
\* complete, or create, edit, review or delete of a mistake) changes its
\* mistake_ids or its total_problems.
C17_MistakeIdsFixed ==
    [][exam.id # 0
       => /\ exam'.id = exam.id
          /\ exam'.mistake_ids = exam.mistake_ids
          /\ exam'.total_problems = exam.total_problems]_vars

\* a review is accepted for a mistake of the session that has an answer
C17_Witness ==
    /\ exam.id # 0
    /\ exam.answers # EmptyAnswers
    /\ exam.total_problems = Cardinality(exam.mistake_ids)
    /\ \E m \in exam.mistake_ids \cap StoredIds : mistakes[m].total_attempts > 0
    /\ response = [op |-> "submit_review", status |-> 200]

\* the lower case of a character, as str.lower() gives it
Lower(c) ==
    CASE c = "A" -> "a"
      [] c = "U+00C9" -> "U+00E9"
      [] OTHER -> c

\* two words are equal ignoring case
EqualIgnoringCase(v, w) ==
    /\ Len(v) = Len(w)
    /\ \A i \in 1..Len(v) : Lower(v[i]) = Lower(w[i])

\* C18 (SpecVocab): no two stored vocabulary entries have words that are
\* equal ignoring case; a create or a rename whose word equals another
\* entry's word ignoring case is answered with the error 400 and stores
\* nothing; a rename of an entry to another casing of its own word is accepted.
C18_WordsUniqueIgnoringCase ==
    /\ [](\A i, j \in DOMAIN vocab :
             i # j => ~EqualIgnoringCase(vocab[i].word, vocab[j].word))
    /\ [][\A w \in Words :
             /\ (create_vocabulary(w)
                 /\ \E j \in DOMAIN vocab : EqualIgnoringCase(vocab[j].word, w))
                => /\ response' = [op |-> "create_vocabulary", status |-> 400]
                   /\ vocab' = vocab
             /\ \A i \in DOMAIN vocab :
                   /\ (update_vocabulary(i, w)
                       /\ \E j \in DOMAIN vocab \ {i} : EqualIgnoringCase(vocab[j].word, w))
                      => /\ response' = [op |-> "update_vocabulary", status |-> 400]
                         /\ vocab' = vocab
                   /\ (update_vocabulary(i, w)
                       /\ w # vocab[i].word
                       /\ EqualIgnoringCase(vocab[i].word, w)
                       /\ \A j \in DOMAIN vocab \ {i} : ~ilike(vocab[j].word, w))
                      => /\ response' = [op |-> "update_vocabulary", status |-> 200]
                         /\ vocab'[i].word = w]_vars

\* the (session, mistake id) pairs a report counts for a section: a completed
\* session, an id of its list, the mistake still stored and of that section
CountedPairs(section) ==
    {p \in SessionIds \X MistakeIds :
        /\ stats.sessions[p[1]].completed_at # Null
        /\ p[2] \in stats.sessions[p[1]].mistake_ids
        /\ p[2] \in StoredIds
        /\ mistakes[p[2]].section = section}

\* the pairs whose session records true for the mistake id
CorrectPairs(section) ==
    {p \in CountedPairs(section) :
        /\ mistake_key(p[2]) \in DOMAIN stats.sessions[p[1]].answers
        /\ stats.sessions[p[1]].answers[mistake_key(p[2])]}

\* C19 (SpecStats): the report counts completed sessions only; each id of a
\* completed session whose mistake is stored adds 1 to the total of the
\* mistake's section, to correct when answers records true for it and to
\* incorrect otherwise; correct + incorrect = total; total_exams is the
\* number of completed sessions.
C19_StatisticsTally ==
    stats.called
    => /\ stats.result.total_exams =
              Cardinality({e \in SessionIds : stats.sessions[e].completed_at # Null})
       /\ \A section \in Sections :
             LET report == IF section = "Quant" THEN stats.result.quant
                           ELSE stats.result.verbal
             IN  /\ report.total_problems = Cardinality(CountedPairs(section))
                 /\ report.correct = Cardinality(CorrectPairs(section))
                 /\ report.incorrect =
                        Cardinality(CountedPairs(section) \ CorrectPairs(section))
                 /\ report.correct + report.incorrect = report.total_problems

\* two completed sessions over a stored Quant mistake, one with the answer
\* true and one without an answer, next to nothing else
C19_Witness ==
    /\ stats.called
    /\ stats.result.total_exams = 2
    /\ stats.result.quant.total_problems = 2
    /\ stats.result.quant.correct = 1
    /\ stats.result.quant.incorrect = 1
    /\ \E e \in SessionIds : stats.sessions[e].answers = EmptyAnswers

\* C20 (SpecPercent): the percentage is 0 when the total is 0 and otherwise
\* a tenth nearest to correct / total * 100 (either neighbour at a tie); it
\* lies between 0 and 100; 3 of 4 gives 75.0 and 2 of 4 gives 50.0.
C20_PercentageRounded ==
    pct.called
    => /\ pct.total = 0 => pct.percentage = 0
       /\ pct.total > 0
          => LET err == pct.percentage * pct.total - 1000 * pct.correct
             IN  2 * err <= pct.total /\ 0 - pct.total <= 2 * err
       /\ pct.percentage \in 0..1000
       /\ (pct.correct = 3 /\ pct.total = 4) => pct.percentage = 750
       /\ (pct.correct = 2 /\ pct.total = 4) => pct.percentage = 500

\* 1 of 16 is 6.25, a tie, reported as 6.2
C20_Witness ==
    /\ pct.called
    /\ pct.correct = 1
    /\ pct.total = 16
    /\ pct.percentage = 62

\* C21 (SpecSM2): for one prior state and qualities q1 < q2 in 3..5 the new
\* ease factor of the call with q2 is at least the one of the call with q1.
C21_EaseMonotoneInQuality ==
    (sm2.called /\ sm2.quality >= 3)
    => \A q2 \in (sm2.quality + 1)..MaxQuality :
          calculate_next_review(q2, sm2.interval, sm2.ease_factor,
                                sm2.repetition_count, now).new_ease_factor
              >= sm2.result.new_ease_factor

\* quality 3 is held at the floor 1.3 while quality 5 moves above it
C21_Witness ==
    /\ sm2.called
    /\ sm2.quality = 3
    /\ sm2.ease_factor = MinEase + 5
    /\ sm2.result.new_ease_factor = MinEase
    /\ calculate_next_review(MaxQuality, sm2.interval, sm2.ease_factor,
                             sm2.repetition_count, now).new_ease_factor = MinEase + 15

\* the scheduling fields of a row of gre_mistakes
SchedulingFields(row) ==
    <<row.interval, row.ease_factor, row.repetition_count, row.mastered,
      row.next_review_date, row.total_attempts, row.got_correct>>

\* the content fields of a row that the model holds
ContentFields(row) == <<row.section, row.kmf_section, row.kmf_problem_set>>

\* C22 (SpecReview): an edit of a mistake leaves its scheduling fields as
\* they were, a review leaves its content fields as they were, and the
\* scheduling fields of a stored mistake change in an accepted review only.
C22_SchedulingOnlyByReview ==
    [][\A m \in KeptIds :
          /\ \A s \in Sections :
                update_mistake(m, s)
                => SchedulingFields(mistakes'[m]) = SchedulingFields(mistakes[m])
          /\ \A q \in QualityInputs :
                submit_review(m, q)
                => ContentFields(mistakes'[m]) = ContentFields(mistakes[m])
          /\ SchedulingFields(mistakes'[m]) # SchedulingFields(mistakes[m])
             => response' = [op |-> "submit_review", status |-> 200]]_vars

\* a reviewed mistake was moved to the other section by an edit
C22_Witness ==
    \E m \in StoredIds :
        /\ mistakes[m].total_attempts > 0
        /\ mistakes[m].section = "Verbal"
        /\ mistakes[m].next_review_date > 0
        /\ response = [op |-> "update_mistake", status |-> 200]

\* a filter list names a number outside the range of its KMF field
OutOfRangeFilter(kmf_sections, kmf_problem_sets) ==
    \/ \E k \in kmf_sections : k < MinKmfSection \/ k > MaxKmfSection
    \/ \E p \in kmf_problem_sets : p < MinKmfProblemSet \/ p > MaxKmfProblemSet

\* C23 (SpecExamCreate): an exam creation whose kmf_sections or
\* kmf_problem_sets names a number outside 1..74 or 1..15 is answered with an
\* error and creates no session, and so is a list query with such a number.
C23_FilterRangeRejected ==
    [][/\ \A f \in SUBSET Sections, ks \in SUBSET KmfSectionFilterValues,
             kp \in SUBSET KmfProblemSetFilterValues :
             (OutOfRangeFilter(ks, kp) /\ create_exam_session_config(f, ks, kp))
             => /\ response'.status \in {400, 422}
                /\ exam' = exam
       /\ \A k \in KmfSectionFilterValues \cup {Null},
             p \in KmfProblemSetFilterValues \cup {Null} :
             (OutOfRangeFilter({k} \ {Null}, {p} \ {Null}) /\ get_all_mistakes(k, p))
             => response'.status \in {400, 422}]_vars

\* C26 (SpecExamCreate): exam creation matches the mistakes that are in every
\* non-empty filter list; with no match it answers 400 and stores nothing;
\* otherwise the session has the matching ids, their number (at least 1) as
\* total_problems, no answers, both counters 0 and completed_at null.
C26_CreationSelectsMatching ==
    [][\A f \in SUBSET Sections, ks \in SUBSET KmfSectionFilterValues,
          kp \in SUBSET KmfProblemSetFilterValues :
          create_exam_session_config(f, ks, kp)
          => LET chosen == {m \in StoredIds :
                               /\ f # {} => \E x \in f : mistakes[m].section = x
                               /\ ks # {} => \E x \in ks : mistakes[m].kmf_section = x
                               /\ kp # {} => \E x \in kp : mistakes[m].kmf_problem_set = x}
             IN  /\ chosen = {}
                    => /\ response' = [op |-> "create_exam_session", status |-> 400]
                       /\ exam' = exam
                 /\ chosen # {}
                    => /\ response' = [op |-> "create_exam_session", status |-> 200]
                       /\ exam'.id # 0
                       /\ exam'.mistake_ids = chosen
                       /\ exam'.total_problems = Cardinality(chosen)
                       /\ exam'.total_problems >= 1
                       /\ exam'.answers = EmptyAnswers
                       /\ exam'.correct_count = 0
                       /\ exam'.incorrect_count = 0
                       /\ exam'.completed_at = Null]_vars

\* a session over a mistake that is stored with KMF section 74 and problem set 15
C26_Witness ==
    /\ exam.id # 0
    /\ exam.total_problems = Cardinality(exam.mistake_ids)
    /\ \E m \in exam.mistake_ids :
          /\ mistakes[m].kmf_section = MaxKmfSection
          /\ mistakes[m].kmf_problem_set = MaxKmfProblemSet
    /\ response = [op |-> "create_exam_session", status |-> 200]

\* C24 (SpecDue): after an accepted review the mistake's next_review_date is
\* the time of the review plus the stored interval, the interval is at least
\* 1, and the mistake is not among the reviews due at that time.
C24_NextReviewAfterNow ==
    [][\A m \in KeptIds, q \in QualityInputs :
          (submit_review(m, q) /\ response'.status = 200)
          => /\ mistakes'[m].next_review_date = now + mistakes'[m].interval
             /\ mistakes'[m].interval >= 1
             /\ m \notin get_today_reviews']_vars

\* a review accepted after the clock has moved, on a mistake that was due
C24_Witness ==
    /\ now >= 1
    /\ response = [op |-> "submit_review", status |-> 200]
    /\ \E m \in StoredIds :
          /\ mistakes[m].total_attempts = 1
          /\ mistakes[m].next_review_date = now + mistakes[m].interval
          /\ m \notin get_today_reviews

\* C25 (SpecReview): a review with quality 1..5 on a stored mistake that is
\* not mastered adds 1 to total_attempts; got_correct is true after quality 4
\* or 5 and a review never sets it back to false.
C25_EveryReviewCounts ==
    [][\A m \in MistakeIds, q \in MinQuality..MaxQuality :
          (m \in StoredIds /\ ~mistakes[m].mastered /\ submit_review(m, q))
          => /\ mistakes'[m].total_attempts = mistakes[m].total_attempts + 1
             /\ q >= 4 => mistakes'[m].got_correct
             /\ mistakes[m].got_correct => mistakes'[m].got_correct]_vars

\* a payload value that is a number outside lo..hi
NumberOutside(v, lo, hi) == v.type = "int" /\ (v.int < lo \/ v.int > hi)

\* a payload value that is the empty string or a string with a character
\* that is not a digit
NotANumber(v) ==
    /\ v.type = "str"
    /\ \/ v.text = <<>>
       \/ \E i \in 1..Len(v.text) :
             v.text[i] \notin {"0", "1", "2", "3", "4", "5", "6", "7", "8", "9"}

KmfInRange(row) ==
    /\ row.kmf_section = Null
       \/ (MinKmfSection <= row.kmf_section /\ row.kmf_section <= MaxKmfSection)
    /\ row.kmf_problem_set = Null
       \/ (MinKmfProblemSet <= row.kmf_problem_set
           /\ row.kmf_problem_set <= MaxKmfProblemSet)

\* the payload (a, b) holds a number outside the range of its field
OutsidePayload(a, b) ==
    \/ NumberOutside(a, MinKmfSection, MaxKmfSection)
    \/ NumberOutside(b, MinKmfProblemSet, MaxKmfProblemSet)

\* the payload (a, b) holds no number outside its range and no string of digits
PlainPayload(a, b) ==
    /\ ~OutsidePayload(a, b)
    /\ a.type = "str" => NotANumber(a)
    /\ b.type = "str" => NotANumber(b)

\* what a write of the payload (a, b) by the request op to row m leaves
PayloadOutcome(op, m, a, b) ==
    /\ OutsidePayload(a, b)
       => (response' = [op |-> op, status |-> 422] /\ mistakes' = mistakes)
    /\ (PlainPayload(a, b) /\ m \in DOMAIN mistakes')
       => /\ response' = [op |-> op, status |-> 200]
          /\ NotANumber(a) => mistakes'[m].kmf_section = Null
          /\ NotANumber(b) => mistakes'[m].kmf_problem_set = Null

\* C27 (SpecKmf): every stored mistake has kmf_section absent or in 1..74 and
\* kmf_problem_set absent or in 1..15; a create or update payload with a
\* number outside the range is answered 422 and changes nothing; an empty or
\* non-numeric string in a payload that is otherwise accepted is stored as
\* absent.
C27_KmfAbsentOrInRange ==
    /\ [](\A m \in StoredIds : KmfInRange(mistakes[m]))
    /\ [][/\ response'.op = "create_mistake"
             => \A a \in KmfSectionInputs, b \in KmfProblemSetInputs :
                   (OutsidePayload(a, b) \/ PlainPayload(a, b))
                   => \A s \in Sections :
                         \/ \A m \in DOMAIN mistakes' \cup {0} :
                               PayloadOutcome("create_mistake", m, a, b)
                         \/ ~create_first_mistake_payload(s, a, b)
          /\ response'.op = "update_mistake"
             => \A a \in KmfSectionInputs, b \in KmfProblemSetInputs :
                   (OutsidePayload(a, b) \/ PlainPayload(a, b))
                   => \A s \in Sections, m \in StoredIds :
                         \/ PayloadOutcome("update_mistake", m, a, b)
                         \/ ~update_mistake_payload(m, s, a, b)]_vars

\* an accepted update has left KMF section 7, which only the string "7"
\* gives, and no problem set
C27_Witness ==
    /\ response = [op |-> "update_mistake", status |-> 200]
    /\ \E m \in StoredIds :
          /\ mistakes[m].kmf_section = 7
          /\ mistakes[m].kmf_problem_set = Null
          /\ mistakes[m].section = "Verbal"

\* C28 (Spec): the keys of the session's answers are ids of its mistake set
\* and the two counters together never exceed total_problems; a submit-answer
\* for an id outside the set leaves both counters as they were.
C28_AnswersWithinMistakeSet ==
    /\ [](exam.id # 0
          => /\ \A k \in DOMAIN exam.answers :
                   \E m \in exam.mistake_ids : k = ToString(m)
             /\ exam.correct_count + exam.incorrect_count <= exam.total_problems)
    /\ [][\A e \in ExamIdInputs, m \in AnswerIds \ exam.mistake_ids, v \in BOOLEAN :
             submit_exam_answer(e, m, v)
             => /\ exam'.correct_count = exam.correct_count
                /\ exam'.incorrect_count = exam.incorrect_count]_vars

\* C29 (SpecFinish): in every interleaving of a complete request and a
\* submit-answer request on one session, no step changes answers,
\* correct_count or incorrect_count once completed_at is stored.
C29_NoWriteAfterCompletion ==
    [][exam.completed_at # Null
       => /\ exam'.answers = exam.answers
          /\ exam'.correct_count = exam.correct_count
          /\ exam'.incorrect_count = exam.incorrect_count]_vars

\* C30 (SpecVocabRace): in every interleaving of two vocabulary requests, two
\* creates or a create and a rename, whose words are equal ignoring case, the
\* words of two requests that were both answered 200 are not in two
\* different stored entries: at most one of them is stored.
C30_ConcurrentWordsUnique ==
    \A p, q \in Procs :
        (p # q /\ reqs.req[p].status = 200 /\ reqs.req[q].status = 200
         /\ EqualIgnoringCase(reqs.req[p].word, reqs.req[q].word))
        => ~(\E i, j \in DOMAIN vocab :
                /\ i # j
                /\ vocab[i].word = reqs.req[p].word
                /\ vocab[j].word = reqs.req[q].word)

====
